---- MODULE Spec2Model ----
(***************************************************************************)
(* Model of package deferred (handler.go): a http.Handler facade that      *)
(* holds requests until a fallible factory has produced the real handler.  *)
(*                                                                         *)
(* Goroutines modelled, one group of actions each:                         *)
(*   - the retry engine          (handler.go:124-145, loop at 131-144)     *)
(*   - the tick producer         (handler.go:126-130)                      *)
(*   - the repeater (relay)      (handler.go:24-30)                        *)
(*   - the warm-swap listener    (handler.go:117-122)                      *)
(*   - one goroutine per request (handler.go:15-20 and 107-114)            *)
(* Environment events: ctx cancellation, the runtime's interval timer      *)
(* behind time.Tick, each request's time.NewTimer firing, the factory      *)
(* returning, notify returning, the delivered responder answering.         *)
(*                                                                         *)
(* Unbuffered channel operations are rendezvous: one action moves both     *)
(* the sender and the receiver.                                            *)
(***************************************************************************)
EXTENDS Integers, Sequences, FiniteSets, TLC

\* ---------------------------------------------------------------- bounds
\* Number of request goroutines that can be in flight at once (slots are
\* reused by later requests).
NumRequests == 2
\* Number of interval ticks the runtime timer behind time.Tick delivers.
MaxTicks == 2

Requests == 1..NumRequests
\* The error returned by the n-th call of create, when it fails (errors of
\* different calls are told apart; 0 stands for a nil error).
ErrorOf(n) == n

\* ------------------------------------------------------------ responders
\* A responder (http.Handler) is a record; id tells real responders of
\* different factory calls apart.
Responder(kind, id) == [kind |-> kind, id |-> id]
\* No value yet (an unassigned local, an empty relay).
NoHandler == Responder("none", 0)
\* The closure installed at construction: races the relay and a timer.
WaitHandler == Responder("wait", 0)
\* http.HandlerFunc(failedHandler)
FailedHandler == Responder("failed", 0)
\* The handler returned by the n-th call of create.
RealHandler(n) == Responder("real", n)

\* A response written to the http.ResponseWriter.
Response(status, body, id) == [status |-> status, body |-> body, id |-> id]
NoResponse == Response(0, "", 0)
StatusServiceUnavailable == 503
\* http.Error(w, "permanent error creating handler", 503)
PermanentFailure ==
    Response(StatusServiceUnavailable, "permanent error creating handler", 0)
\* http.Error(w, "timed out waiting for handler to be created and sent", 503)
ColdTimeout ==
    Response(StatusServiceUnavailable,
             "timed out waiting for handler to be created and sent", 0)
\* What the real responder of factory call n writes (external collaborator).
RealResponse(n) == Response(200, "real", n)

\* ServeHTTP of a responder that is not the waiting closure.
ServeHTTPOfAlwaysFailed(h) == PermanentFailure
ServeHTTPOf(h) ==
    IF h.kind = "failed" THEN PermanentFailure ELSE RealResponse(h.id)

\* ---------------------------------------------------------------- mutex
NoHolder == [kind |-> "none", id |-> 0]
ListenerHolder == [kind |-> "listener", id |-> 0]
RequestHolder(r) == [kind |-> "req", id |-> r]

VARIABLES
    \* environment
    cancelled,      \* ctx.Done() is closed
    cancelFirst,    \* ctx was cancelled before any factory call succeeded
    ticksElapsed,   \* interval ticks fired by the runtime timer so far
    tickBuf,        \* ticks pending in time.Tick's channel (capacity 1)
    \* tick producer goroutine
    tickerPc,       \* "send": blocked in schedule <- now; "wait": in <-t
    \* retry engine goroutine
    enginePc,       \* "select" | "create" | "notify" | "send" | "done"
    engineNext,     \* the value the engine is about to send
    engineState,    \* "retrying" | "succeeded" | "cancelled"
    createCalls,    \* number of invocations of create
    returned,       \* results of create in order: 0 = success, e = error e
    notified,       \* arguments of notify in order
    \* repeater goroutine
    repeaterPc,     \* "recv" | "close" | "repeat"
    repeaterV,      \* v
    \* facade
    handler,        \* deferredHandler.handler
    mutex,          \* holder of deferredHandler.Mutex
    \* warm-swap listener goroutine
    listenerPc,     \* "recv" | "lock" | "write" | "unlock" | "done"
    listenerNext,   \* next
    \* request goroutines
    reqPc,          \* "idle"|"lock"|"read"|"unlock"|"select"|"serve"|"done"
    reqC,           \* c, the field value read under the lock
    reqH,           \* h, the value received from updateHandler
    timer,          \* the closure's timer: "none" | "armed" | "fired"
    resp,           \* the response written
    born,           \* what had happened when the request was issued
    \* newOptions
    configs,        \* the Config values passed to NewHandler
    applied,        \* number of iterations of newOptions' loop done
    opts            \* o

engineVars == <<enginePc, engineNext, engineState, createCalls, returned, notified>>
tickVars == <<ticksElapsed, tickBuf, tickerPc>>
repeaterVars == <<repeaterPc, repeaterV>>
facadeVars == <<handler, mutex>>
listenerVars == <<listenerPc, listenerNext>>
reqVars == <<reqPc, reqC, reqH, timer, resp, born>>
envVars == <<cancelled, cancelFirst>>
optVars == <<configs, applied, opts>>
vars == <<optVars, envVars, engineVars, tickVars, repeaterVars, facadeVars,
          listenerVars, reqVars>>

\* Number of successful factory calls so far.
Successes == Cardinality({i \in 1..Len(returned) : returned[i] = 0})
\* The errors returned by failed factory calls, in order.
FailedErrors == SelectSeq(returned, LAMBDA x : x # 0)

\* What has happened first in the life of the facade: nothing yet
\* ("early"), the cancellation signal before any factory success
\* ("cancelled"), or a factory success ("succeeded").
Phase ==
    IF cancelled /\ cancelFirst THEN "cancelled"
    ELSE IF Successes > 0 THEN "succeeded"
    ELSE "early"

\* ------------------------------------------------------------ configuration
\* Number of Config values passed to NewHandler.
MaxConfigs == 3

\* Defaults, in seconds.
DefaultRetryAfter == 10
DefaultTimeoutAfter == 15
\* Notify callbacks are told apart by a number; 0 is DefaultNotify.
DefaultNotify == 0

\* Durations (seconds) and callbacks a caller passes to the With.. functions;
\* no value is rejected.
DurationValues == {0, 5, DefaultRetryAfter}
NotifyValues == {DefaultNotify, 1}

\* The options object newOptions starts from.
DefaultOptions ==
    [notify |-> DefaultNotify,
     retryAfter |-> DefaultRetryAfter,
     timeoutAfter |-> DefaultTimeoutAfter]

\* WithRetryAfter(v) applied to o
WithRetryAfter(v, o) == [o EXCEPT !.retryAfter = v]
\* WithNotify(n) applied to o
WithNotify(n, o) == [o EXCEPT !.notify = n]
\* WithTimeoutAfter(v) applied to o
WithTimeoutAfterSetsRetry(v, o) == [o EXCEPT !.retryAfter = v]
WithTimeoutAfter(v, o) == [o EXCEPT !.timeoutAfter = v]

\* A Config value: which With.. function made it, and from which argument.
Config(opt, val) == [opt |-> opt, val |-> val]
Configs ==
    {Config("retryAfter", v) : v \in DurationValues}
        \cup {Config("timeoutAfter", v) : v \in DurationValues}
        \cup {Config("notify", n) : n \in NotifyValues}

\* c(o)
ApplyConfig(c, o) ==
    CASE c.opt = "retryAfter" -> WithRetryAfter(c.val, o)
      [] c.opt = "timeoutAfter" -> WithTimeoutAfter(c.val, o)
      [] c.opt = "notify" -> WithNotify(c.val, o)

\* The argument lists NewHandler can be called with.
ConfigLists == UNION {[1..n -> Configs] : n \in 0..MaxConfigs}

\* State right after NewHandler returns: all goroutines started, none has
\* taken a step.
FacadeInit ==
    /\ cancelled = FALSE
    /\ cancelFirst = FALSE
    /\ ticksElapsed = 0
    /\ tickBuf = 0
    /\ tickerPc = "send"
    /\ enginePc = "select"
    /\ engineNext = NoHandler
    /\ engineState = "retrying"
    /\ createCalls = 0
    /\ returned = <<>>
    /\ notified = <<>>
    /\ repeaterPc = "recv"
    /\ repeaterV = NoHandler
    /\ handler = WaitHandler
    /\ mutex = NoHolder
    /\ listenerPc = "recv"
    /\ listenerNext = NoHandler
    /\ reqPc = [r \in Requests |-> "idle"]
    /\ reqC = [r \in Requests |-> NoHandler]
    /\ reqH = [r \in Requests |-> NoHandler]
    /\ timer = [r \in Requests |-> "none"]
    /\ resp = [r \in Requests |-> NoResponse]
    /\ born = [r \in Requests |-> "early"]

\* NewHandler called without Config values: newOptions() has returned the
\* defaults.
Init ==
    /\ FacadeInit
    /\ configs = <<>>
    /\ applied = 0
    /\ opts = DefaultOptions

\* newOptions(configs...) is entered with any argument list; o holds the
\* defaults.
ConfigInit ==
    /\ FacadeInit
    /\ configs \in ConfigLists
    /\ applied = 0
    /\ opts = DefaultOptions

\* One iteration of for _, c := range configs { o = c(o) }.
ApplyNext ==
    /\ applied < Len(configs)
    /\ opts' = ApplyConfig(configs[applied + 1], opts)
    /\ applied' = applied + 1
    /\ UNCHANGED <<configs, envVars, engineVars, tickVars, repeaterVars,
                   facadeVars, listenerVars, reqVars>>

ConfigNext == ApplyNext

\* newOptions alone: every argument list, iteration by iteration.
ConfigSpec == ConfigInit /\ [][ConfigNext]_vars

\* ----------------------------------------------------------- environment
\* The context passed to NewHandler is cancelled (one-shot).
Cancel ==
    /\ ~cancelled
    /\ cancelled' = TRUE
    /\ cancelFirst' = (Successes = 0)
    /\ UNCHANGED <<optVars, engineVars, tickVars, repeaterVars, facadeVars,
                   listenerVars, reqVars>>

\* The runtime timer behind time.Tick(opts.retryAfter) fires after another
\* interval; the tick is dropped when the channel already holds one.
TickFire ==
    /\ ticksElapsed < MaxTicks
    /\ ticksElapsed' = ticksElapsed + 1
    /\ tickBuf' = 1
    /\ UNCHANGED <<optVars, envVars, tickerPc, engineVars, repeaterVars, facadeVars,
                   listenerVars, reqVars>>

\* ---------------------------------------------------------- tick producer
\* for t := time.Tick(..); true; <-t { schedule <- time.Now() }
\* Whether the tick producer is still running: nothing ever stops it.
TickerStopsWithEngine == engineState = "retrying"
TickerRuns == TRUE

\* The post statement <-t: taken after a send on schedule has completed.
TickerWait ==
    /\ TickerRuns
    /\ tickerPc = "wait"
    /\ tickBuf = 1
    /\ tickBuf' = 0
    /\ tickerPc' = "send"
    /\ UNCHANGED <<optVars, envVars, ticksElapsed, engineVars, repeaterVars,
                   facadeVars, listenerVars, reqVars>>

\* ----------------------------------------------------------- retry engine
\* Where the engine goes after send(next) on the success branch: return.
AfterSuccessSendLoops == "select"
AfterSuccessSend == "done"

\* Where the engine goes after send(failedHandler) on the cancellation
\* branch: return.
AfterCancelSendLoops == "select"
AfterCancelSend == "done"

\* The responder the cancellation branch publishes.
CancelPublishesWait == WaitHandler
CancelPublishes == FailedHandler

\* Where the tick producer goes after schedule <- time.Now() completed:
\* to the post statement <-t.
TickerAfterSendNoWait == "send"
TickerAfterSend == "wait"

\* The notify calls made for a factory result (0 = success, e = error e).
NotifyCallsAlways(res) == <<res>>
NotifyCalls(res) == IF res = 0 THEN <<>> ELSE <<res>>

\* Whether the case <-ctx.Done() of the engine's select is ready.
CtxDoneAlwaysReady == TRUE
CtxDone == cancelled

\* case <-ctx.Done(): the engine takes the cancellation branch.
EngineSelectCancel ==
    /\ enginePc = "select"
    /\ CtxDone
    /\ engineNext' = CancelPublishes
    /\ engineState' = "cancelled"
    /\ enginePc' = "send"
    /\ UNCHANGED <<optVars, envVars, tickVars, createCalls, returned, notified,
                   repeaterVars, facadeVars, listenerVars, reqVars>>

\* A variant that takes a tick whatever the engine is doing, as if each
\* attempt ran in a goroutine of its own.
EngineAtSelectOrBusy == enginePc \in {"select", "create", "notify"}

\* The engine receives from schedule only in its select: create() and
\* opts.notify(err) are plain calls in the same goroutine, and the loop
\* comes back to the select only after they return.
EngineAtSelect == enginePc = "select"

\* case <-schedule: rendezvous with the tick producer's send, then the
\* engine invokes create().
EngineSelectSchedule ==
    /\ EngineAtSelect
    /\ tickerPc = "send"
    /\ tickerPc' = TickerAfterSend
    /\ enginePc' = "create"
    /\ createCalls' = createCalls + 1
    /\ UNCHANGED <<optVars, envVars, ticksElapsed, tickBuf, engineNext, engineState,
                   returned, notified, repeaterVars, facadeVars,
                   listenerVars, reqVars>>

\* create() returns (next, nil): the engine goes on to send(next).
CreateSucceed ==
    /\ enginePc = "create"
    /\ returned' = Append(returned, 0)
    /\ notified' = notified \o NotifyCalls(0)
    /\ engineNext' = RealHandler(createCalls)
    /\ engineState' = "succeeded"
    /\ enginePc' = "send"
    /\ UNCHANGED <<optVars, envVars, tickVars, createCalls, repeaterVars, facadeVars,
                   listenerVars, reqVars>>

\* create() returns (_, err): the engine calls opts.notify(err).
CreateFail ==
    /\ enginePc = "create"
    /\ returned' = Append(returned, ErrorOf(createCalls))
    /\ notified' = notified \o NotifyCalls(ErrorOf(createCalls))
    /\ enginePc' = "notify"
    /\ UNCHANGED <<optVars, envVars, tickVars, engineNext, engineState, createCalls,
                   repeaterVars, facadeVars, listenerVars, reqVars>>

\* opts.notify(err) returns: back to the top of the for loop.
NotifyReturn ==
    /\ enginePc = "notify"
    /\ enginePc' = "select"
    /\ UNCHANGED <<optVars, envVars, tickVars, engineNext, engineState, createCalls,
                   returned, notified, repeaterVars, facadeVars,
                   listenerVars, reqVars>>

\* send(next): receive <- next, a rendezvous with the repeater's
\* v := <-receive; then the engine's goroutine returns.
EngineSend ==
    /\ enginePc = "send"
    /\ repeaterPc = "recv"
    /\ repeaterV' = engineNext
    /\ repeaterPc' = "close"
    /\ enginePc' = IF engineState = "cancelled" THEN AfterCancelSend
                                                 ELSE AfterSuccessSend
    /\ UNCHANGED <<optVars, envVars, tickVars, engineNext, engineState, createCalls,
                   returned, notified, facadeVars, listenerVars, reqVars>>

\* ---------------------------------------------------------------- repeater
\* Where the repeater goes after close(receive): into for { repeat <- v }.
RepeaterAfterCloseExits == "exited"
RepeaterAfterClose == "repeat"

\* close(receive), then the repeater enters for { repeat <- v }.
RepeaterClose ==
    /\ repeaterPc = "close"
    /\ repeaterPc' = RepeaterAfterClose
    /\ UNCHANGED <<optVars, envVars, tickVars, engineVars, repeaterV, facadeVars,
                   listenerVars, reqVars>>

\* The relay has a value to hand out: the repeater is blocked in repeat <- v.
Published == repeaterPc = "repeat"

\* Where the repeater goes after a send on repeat completed: round the
\* for loop, to the next repeat <- v.
RepeaterAfterDeliverExits == "exited"
RepeaterAfterDeliver == "repeat"

\* ------------------------------------------------------ warm-swap listener
\* The value the listener stores into the field.
ListenerStoresWait(next) == WaitHandler
ListenerStoresNil(next) == NoHandler
ListenerStores(next) == next

\* Whether h.Lock() can return: nobody holds the mutex.
CanLockAlways == TRUE
CanLock == mutex = NoHolder

\* next := <-updateHandler
ListenerRecv ==
    /\ listenerPc = "recv"
    /\ Published
    /\ listenerNext' = repeaterV
    /\ listenerPc' = "lock"
    /\ repeaterPc' = RepeaterAfterDeliver
    /\ UNCHANGED <<optVars, envVars, tickVars, engineVars, repeaterV, facadeVars,
                   reqVars>>

\* h.Lock()
ListenerLock ==
    /\ listenerPc = "lock"
    /\ CanLock
    /\ mutex' = ListenerHolder
    /\ listenerPc' = "write"
    /\ UNCHANGED <<optVars, envVars, tickVars, engineVars, repeaterVars, handler,
                   listenerNext, reqVars>>

\* h.handler = next
ListenerWrite ==
    /\ listenerPc = "write"
    /\ handler' = ListenerStores(listenerNext)
    /\ listenerPc' = "unlock"
    /\ UNCHANGED <<optVars, envVars, tickVars, engineVars, repeaterVars, mutex,
                   listenerNext, reqVars>>

\* h.Unlock(); the goroutine ends.
ListenerUnlock ==
    /\ listenerPc = "unlock"
    /\ mutex' = NoHolder
    /\ listenerPc' = "done"
    /\ UNCHANGED <<optVars, envVars, tickVars, engineVars, repeaterVars, handler,
                   listenerNext, reqVars>>

\* ---------------------------------------------------------------- requests
\* A caller invokes ServeHTTP on the facade (a new request takes a slot
\* whose previous request, if any, has been answered).
Issue(r) ==
    /\ reqPc[r] \in {"idle", "done"}
    /\ reqPc' = [reqPc EXCEPT ![r] = "lock"]
    /\ resp' = [resp EXCEPT ![r] = NoResponse]
    /\ born' = [born EXCEPT ![r] = Phase]
    /\ UNCHANGED <<reqC, reqH, timer>>
    /\ UNCHANGED <<optVars, envVars, tickVars, engineVars, repeaterVars, facadeVars,
                   listenerVars>>

\* h.Lock()
ReqLock(r) ==
    /\ reqPc[r] = "lock"
    /\ CanLock
    /\ mutex' = RequestHolder(r)
    /\ reqPc' = [reqPc EXCEPT ![r] = "read"]
    /\ UNCHANGED <<optVars, envVars, tickVars, engineVars, repeaterVars, handler,
                   listenerVars, reqC, reqH, timer, resp, born>>

\* c := h.handler
ReqRead(r) ==
    /\ reqPc[r] = "read"
    /\ reqC' = [reqC EXCEPT ![r] = handler]
    /\ reqPc' = [reqPc EXCEPT ![r] = "unlock"]
    /\ UNCHANGED <<optVars, envVars, tickVars, engineVars, repeaterVars, facadeVars,
                   listenerVars, reqH, timer, resp, born>>

\* The state of the timer the waiting closure creates on entering its select.
NoTimer == "none"
NewTimer == "armed"

\* Whether c.ServeHTTP enters the select of the waiting closure.
EntersSelectAlways(c) == TRUE
EntersSelect(c) == c = WaitHandler

\* h.Unlock(); c.ServeHTTP(w, r): the waiting closure evaluates
\* time.NewTimer(..) and blocks in its select; any other responder starts
\* serving.
ReqUnlock(r) ==
    /\ reqPc[r] = "unlock"
    /\ mutex' = NoHolder
    /\ IF EntersSelect(reqC[r])
         THEN /\ timer' = [timer EXCEPT ![r] = NewTimer]
              /\ reqPc' = [reqPc EXCEPT ![r] = "select"]
         ELSE /\ timer' = timer
              /\ reqPc' = [reqPc EXCEPT ![r] = "serve"]
    /\ UNCHANGED <<optVars, envVars, tickVars, engineVars, repeaterVars, handler,
                   listenerVars, reqC, reqH, resp, born>>

\* The request's timer fires: a value is ready on its channel C. (A timer
\* firing after the select was left is never observed: the timer is garbage
\* as soon as the select is left.)
TimerFire(r) ==
    /\ reqPc[r] = "select"
    /\ timer[r] = "armed"
    /\ timer' = [timer EXCEPT ![r] = "fired"]
    /\ UNCHANGED <<optVars, envVars, tickVars, engineVars, repeaterVars, facadeVars,
                   listenerVars, reqPc, reqC, reqH, resp, born>>

\* case h := <-updateHandler: rendezvous with the repeater's repeat <- v.
ReqSelectRelay(r) ==
    /\ reqPc[r] = "select"
    /\ Published
    /\ reqH' = [reqH EXCEPT ![r] = repeaterV]
    /\ timer' = [timer EXCEPT ![r] = "none"]
    /\ reqPc' = [reqPc EXCEPT ![r] = "serve"]
    /\ repeaterPc' = RepeaterAfterDeliver
    /\ UNCHANGED <<optVars, envVars, tickVars, engineVars, repeaterV, facadeVars,
                   listenerVars, reqC, resp, born>>

\* What the timer case of the select writes.
TimeoutWritesPermanent == PermanentFailure
TimeoutWrites == ColdTimeout

\* case <-time.NewTimer(opts.timeoutAfter).C: http.Error(.., 503); the
\* closure and ServeHTTP return, their locals are gone.
ReqSelectTimeout(r) ==
    /\ reqPc[r] = "select"
    /\ timer[r] = "fired"
    /\ timer' = [timer EXCEPT ![r] = "none"]
    /\ resp' = [resp EXCEPT ![r] = TimeoutWrites]
    /\ reqC' = [reqC EXCEPT ![r] = NoHandler]
    /\ reqPc' = [reqPc EXCEPT ![r] = "done"]
    /\ UNCHANGED <<optVars, envVars, tickVars, engineVars, repeaterVars, facadeVars,
                   listenerVars, reqH, born>>

\* The responder the request is delegated to: c itself, or the h received
\* from the relay when c is the waiting closure.
TargetFromRelay(r) == reqH[r]
Target(r) == IF reqC[r] = WaitHandler THEN reqH[r] ELSE reqC[r]

\* The responder delegated to writes its response and returns; ServeHTTP
\* returns, its locals are gone.
ReqServe(r) ==
    /\ reqPc[r] = "serve"
    /\ resp' = [resp EXCEPT ![r] = ServeHTTPOf(Target(r))]
    /\ reqC' = [reqC EXCEPT ![r] = NoHandler]
    /\ reqH' = [reqH EXCEPT ![r] = NoHandler]
    /\ reqPc' = [reqPc EXCEPT ![r] = "done"]
    /\ UNCHANGED <<optVars, envVars, tickVars, engineVars, repeaterVars, facadeVars,
                   listenerVars, timer, born>>

\* ------------------------------------------------------------ specification
Next ==
    \/ Cancel
    \/ TickFire
    \/ TickerWait
    \/ EngineSelectCancel
    \/ EngineSelectSchedule
    \/ CreateSucceed
    \/ CreateFail
    \/ NotifyReturn
    \/ EngineSend
    \/ RepeaterClose
    \/ ListenerRecv
    \/ ListenerLock
    \/ ListenerWrite
    \/ ListenerUnlock
    \/ \E r \in Requests : Issue(r)
    \/ \E r \in Requests : ReqLock(r)
    \/ \E r \in Requests : ReqRead(r)
    \/ \E r \in Requests : ReqUnlock(r)
    \/ \E r \in Requests : TimerFire(r)
    \/ \E r \in Requests : ReqSelectRelay(r)
    \/ \E r \in Requests : ReqSelectTimeout(r)
    \/ \E r \in Requests : ReqServe(r)

Spec == Init /\ [][Next]_vars

\* Scheduling assumptions for liveness: every goroutine of the package that
\* can take a step eventually does (Go's scheduler), sync.Mutex does not
\* starve a waiter (starvation mode), runtime timers fire, and a responder
\* that was delegated to returns. Nothing is assumed about the factory,
\* notify, cancellation, the interval timer or the arrival of requests.
Fairness ==
    /\ WF_vars(EngineSelectCancel)
    /\ WF_vars(EngineSend)
    /\ WF_vars(RepeaterClose)
    /\ WF_vars(ListenerRecv)
    /\ SF_vars(ListenerLock)
    /\ WF_vars(ListenerWrite)
    /\ WF_vars(ListenerUnlock)
    /\ \A r \in Requests :
         /\ SF_vars(ReqLock(r))
         /\ WF_vars(ReqRead(r))
         /\ WF_vars(ReqUnlock(r))
         /\ WF_vars(TimerFire(r))
         /\ WF_vars(ReqSelectRelay(r) \/ ReqSelectTimeout(r))
         /\ WF_vars(ReqServe(r))

FairSpec == Spec /\ Fairness

\* ------------------------------------------------------------------ claims

\* C1: once the retry engine is terminal (a factory call returned success,
\* or the cancellation branch was taken) no step invokes create again, and
\* at most one factory call ever returns success.
C1_NoCreateAfterTerminal ==
    [][ /\ (engineState # "retrying" => createCalls' = createCalls)
        /\ Successes' <= 1 ]_vars

\* C1 witness: the engine has returned after a success while the tick
\* producer stands ready to hand over a further tick.
C1_Witness ==
    /\ engineState = "succeeded"
    /\ enginePc = "done"
    /\ tickerPc = "send"
    /\ ticksElapsed >= 1

C3_Original == createCalls > 0 => ticksElapsed >= 1

\* C3 amended: the first attempt needs no tick (the tick producer offers a
\* schedule event before its first wait); every later attempt needs a
\* further interval tick, so the number of factory invocations never exceeds
\* one plus the number of interval ticks elapsed.
C3_Amended == createCalls <= 1 + ticksElapsed

\* C3 witness: a second attempt has been made after exactly one tick.
C3_Witness == createCalls = 2 /\ ticksElapsed = 1

\* C4: the arguments of the notify calls made so far are exactly the errors
\* of the failed factory attempts completed so far, in order, each once;
\* nothing is notified for a successful attempt.
C4_NotifyOncePerFailure == notified = FailedErrors

\* C4 witness: the factory failed twice and then succeeded, and notify was
\* called exactly twice.
C4_Witness ==
    /\ Len(returned) = 3
    /\ Successes = 1
    /\ Len(notified) = 2

\* C5 as stated: no notify call happens once a factory call has succeeded
\* or once the cancellation signal has fired.
C5_Original ==
    [][ (Successes > 0 \/ cancelled) => notified' = notified ]_vars

\* C5 amended: no notify call happens once a factory call has succeeded or
\* once the engine has taken the cancellation branch (after the signal has
\* fired but before the engine takes that branch, an attempt can still fail
\* and be notified).
C5_Amended ==
    [][ engineState # "retrying" => notified' = notified ]_vars

\* C5 witness: the engine has returned on the cancellation branch after a
\* notified failure, while the tick producer offers a further tick.
C5_Witness ==
    /\ engineState = "cancelled"
    /\ enginePc = "done"
    /\ Len(notified) >= 1
    /\ tickerPc = "send"

\* C6: whenever a factory call has returned success, the responder it
\* produced is the value the relay hands out, the listener eventually has
\* installed exactly that responder and has terminated, the installed
\* responder is never replaced, and every request issued once it is
\* installed is eventually answered by it.
C6_SwapLiveness ==
    /\ [](engineState = "succeeded" =>
            /\ engineNext = RealHandler(Len(returned))
            /\ Published => repeaterV = engineNext)
    /\ (engineState = "succeeded") ~>
            (handler = engineNext /\ listenerPc = "done" /\ mutex # ListenerHolder)
    /\ [][handler.kind = "real" => handler' = handler]_vars
    /\ \A r \in Requests :
          (handler.kind = "real" /\ reqPc[r] = "lock") ~>
              (reqPc[r] = "done" /\ resp[r] = RealResponse(handler.id))

\* C6 witness: the real responder of a second attempt is installed, the
\* listener has terminated, and a request issued after the success has been
\* answered by it while another request is in flight.
C6_Witness ==
    /\ engineState = "succeeded"
    /\ handler = RealHandler(2)
    /\ listenerPc = "done"
    /\ \E r, q \in Requests :
          /\ r # q
          /\ born[r] = "succeeded" /\ reqPc[r] = "done"
          /\ resp[r] = RealResponse(2)
          /\ reqPc[q] \notin {"idle", "done"}

\* C7: once the engine has taken the cancellation branch, the value the
\* relay hands out is the permanent-failure responder, it is eventually
\* installed as the active responder, and once installed it is never
\* replaced.
C7_CancelTerminal ==
    /\ [](engineState = "cancelled" =>
            /\ engineNext = FailedHandler
            /\ Published => repeaterV = FailedHandler)
    /\ (engineState = "cancelled") ~> (handler = FailedHandler)
    /\ [][handler = FailedHandler => handler' = FailedHandler]_vars

\* C7 witness: the engine took the cancellation branch after a failed
\* attempt and the permanent-failure responder is installed.
C7_Witness ==
    /\ engineState = "cancelled"
    /\ Len(notified) >= 1
    /\ handler = FailedHandler
    /\ listenerPc = "done"

\* A step in which request r takes the timer case of its select.
TimeoutStep(r) == reqPc[r] = "select" /\ reqPc'[r] = "done"
\* A step in which request r receives from the relay.
RelayReadStep(r) == reqPc[r] = "select" /\ reqPc'[r] = "serve"
\* A step in which request r reads the active-responder field.
FieldReadStep(r) == reqPc[r] = "read" /\ reqPc'[r] = "unlock"

\* C8 as stated: once a responder is installed, no request (in flight or
\* new) takes the cold-wait-timeout case or reads from the relay.
C8_Original ==
    [][ handler # WaitHandler =>
          \A r \in Requests : ~TimeoutStep(r) /\ ~RelayReadStep(r) ]_vars

\* C8 amended: once a responder is installed, every request that reads the
\* field afterwards gets the installed responder, and a request holding an
\* installed responder never starts a timer, never reads the relay and never
\* completes with the cold-wait-timeout response (a request that read the
\* waiting responder before the installation stays in its race).
C8_Amended ==
    /\ [][ \A r \in Requests :
             /\ (handler # WaitHandler /\ FieldReadStep(r)) =>
                    reqC'[r] = handler /\ reqC'[r] # WaitHandler
             /\ reqC[r] \notin {NoHandler, WaitHandler} =>
                    /\ ~TimeoutStep(r) /\ ~RelayReadStep(r)
                    /\ timer'[r] = "none"
                    /\ reqH'[r] = NoHandler
                    /\ resp'[r] # ColdTimeout ]_vars
    /\ [](\A r \in Requests :
             reqC[r] \notin {NoHandler, WaitHandler} =>
                 reqPc[r] \in {"unlock", "serve"} /\ timer[r] = "none")

\* C8 witness: a request that read the installed responder is being served
\* while another request, which read the waiting responder earlier, is still
\* in its race.
C8_Witness ==
    \E r, q \in Requests :
        /\ handler # WaitHandler
        /\ reqPc[r] = "serve" /\ reqC[r] = handler
        /\ reqPc[q] = "select"

\* C9: a request that takes the timer case answers with the fixed
\* cold-wait-timeout 503, and that step changes nothing but the request
\* itself: the engine, the tick source, the relay, the field and its lock,
\* the listener and every other request are unchanged. While nothing is
\* published the timer case is the only way out of the race.
C9_TimeoutFrame ==
    [][ \A r \in Requests :
          /\ TimeoutStep(r) =>
                /\ timer[r] = "fired"
                /\ resp'[r] = ColdTimeout
                /\ resp'[r].status = StatusServiceUnavailable
                /\ UNCHANGED <<envVars, engineVars, tickVars, repeaterVars,
                               facadeVars, listenerVars>>
                /\ \A q \in Requests \ {r} :
                      UNCHANGED <<reqPc[q], reqC[q], reqH[q], timer[q],
                                  resp[q], born[q]>>
          /\ (reqPc[r] = "select" /\ ~Published) =>
                reqPc'[r] = "select" \/ TimeoutStep(r) ]_vars

\* C9 witness: before any factory success or cancellation, a request has
\* been answered with the cold-wait-timeout while an attempt is in flight
\* and another request is still waiting.
C9_Witness ==
    \E r, q \in Requests :
        /\ Successes = 0 /\ ~cancelled
        /\ enginePc = "create"
        /\ reqPc[r] = "done" /\ resp[r] = ColdTimeout
        /\ reqPc[q] = "select"

\* C10: every request handled by the facade is eventually answered, whether
\* or not the factory ever succeeds or cancellation ever fires; a request in
\* the cold race always has a timer running or fired.
C10_AlwaysResponds ==
    /\ \A r \in Requests :
          (reqPc[r] = "lock") ~> (reqPc[r] = "done" /\ resp[r] # NoResponse)
    /\ [](\A r \in Requests :
             reqPc[r] = "select" => timer[r] \in {"armed", "fired"})

\* C10 witness: with no factory success and no cancellation, a request has
\* left the race through its timeout.
C10_Witness ==
    \E r \in Requests :
        /\ Successes = 0 /\ ~cancelled /\ ~Published
        /\ born[r] = "early"
        /\ reqPc[r] = "done" /\ resp[r] = ColdTimeout

\* C11 as stated: when the first factory attempt succeeded, notify was never
\* called and every answered request that was issued after that success was
\* answered by the real responder.
C11_Original ==
    returned = <<0>> =>
        /\ notified = <<>>
        /\ \A r \in Requests :
              (born[r] = "succeeded" /\ reqPc[r] = "done") =>
                  resp[r] = RealResponse(1)

\* C11 amended: when the first factory attempt succeeded, notify is never
\* called, the only responder ever installed is that attempt's product,
\* every request that read the installed field is delegated to it without a
\* timer, and a request issued after the success is answered by it or, if
\* it entered the cold race before the installation and its timer won, by
\* the cold-wait-timeout; never by anything else.
C11_Amended ==
    returned = <<0>> =>
        /\ notified = <<>>
        /\ handler \in {WaitHandler, RealHandler(1)}
        /\ \A r \in Requests :
              /\ born[r] = "succeeded" =>
                    resp[r] \in {NoResponse, RealResponse(1), ColdTimeout}
              /\ reqPc[r] = "serve" => ServeHTTPOf(Target(r)) = RealResponse(1)
              /\ reqC[r] = RealHandler(1) =>
                    reqPc[r] \in {"unlock", "serve"} /\ timer[r] = "none"

\* C11 witness: the first attempt succeeded, a tick later its product is
\* installed and a request issued after the success has been answered by it.
C11_Witness ==
    /\ returned = <<0>>
    /\ ticksElapsed >= 1
    /\ handler = RealHandler(1)
    /\ \E r \in Requests :
          born[r] = "succeeded" /\ reqPc[r] = "done" /\ resp[r] = RealResponse(1)

\* The value the last mutator for option opt among cs sets, or default.
LastSet(opt, cs, default) ==
    LET I == {i \in 1..Len(cs) : cs[i].opt = opt}
    IN  IF I = {} THEN default
        ELSE cs[CHOOSE i \in I : \A j \in I : j <= i].val

\* The configuration the claim expects from the argument list cs.
ExpectedOptions(cs) ==
    [notify |-> LastSet("notify", cs, DefaultNotify),
     retryAfter |-> LastSet("retryAfter", cs, DefaultRetryAfter),
     timeoutAfter |-> LastSet("timeoutAfter", cs, DefaultTimeoutAfter)]

\* C12: after any number of iterations the options are the defaults (10 s,
\* 15 s, the no-op notify) overridden field by field by the last mutator
\* applied for that field; an iteration leaves the fields its mutator does
\* not set unchanged; mutators for different fields commute.
C12_LastWriteWins ==
    /\ [](opts = ExpectedOptions(SubSeq(configs, 1, applied)))
    /\ [][applied' = applied + 1 =>
            \A f \in {"notify", "retryAfter", "timeoutAfter"} \ {configs[applied'].opt} :
                opts'[f] = opts[f]]_vars
    /\ [](\A c1, c2 \in Configs :
            c1.opt # c2.opt =>
                ApplyConfig(c1, ApplyConfig(c2, opts)) =
                    ApplyConfig(c2, ApplyConfig(c1, opts)))
    /\ [](DefaultOptions = [notify |-> 0, retryAfter |-> 10, timeoutAfter |-> 15])

\* C12 witness: three mutators were applied, the first and the last for the
\* same option with different values and one for another option between
\* them; the last one's value stands.
C12_Witness ==
    /\ applied = 3
    /\ Len(configs) = 3
    /\ configs[1].opt = configs[3].opt
    /\ configs[1].val # configs[3].val
    /\ configs[2].opt # configs[1].opt
    /\ opts[configs[3].opt] = configs[3].val
    /\ opts[configs[2].opt] = configs[2].val

\* A step in which the engine calls send(..), the relay's publish.
PublishCall == enginePc # "send" /\ enginePc' = "send"

\* C13: publish is called at most once (only while the engine is still
\* retrying, which the call ends), the value the relay holds is set once and
\* never changes, the intake is never sent on after it was closed, and the
\* value published is the product of a successful factory call or, only
\* after the cancellation signal has fired, the permanent-failure responder.
C13_PublishOnce ==
    /\ [][ /\ PublishCall => engineState = "retrying" /\ engineState' # "retrying"
           /\ engineState # "retrying" => engineState' = engineState
           /\ repeaterV # NoHandler => repeaterV' = repeaterV ]_vars
    /\ [](repeaterPc # "recv" => enginePc = "done")
    /\ [](repeaterV # NoHandler =>
            \/ /\ repeaterV = FailedHandler
               /\ cancelled
               /\ Successes = 0
            \/ /\ repeaterV = RealHandler(Len(returned))
               /\ returned[Len(returned)] = 0)

\* C13 witness: the signal fired while an attempt was in flight, the attempt
\* succeeded, and its product is what the relay hands out.
C13_Witness ==
    /\ cancelled /\ cancelFirst
    /\ Published
    /\ repeaterV = RealHandler(2)
    /\ enginePc = "done"

\* A step in which the listener receives from the relay.
ListenerReadStep == listenerPc = "recv" /\ listenerPc' = "lock"

\* C14: a receive from the relay completes only after publish has completed;
\* what it yields is the published value, whoever receives (the listener or
\* any request) and in whatever order; a receive leaves the value in the
\* relay, which stays ready for the next receiver.
C14_RelayBroadcast ==
    /\ [][ /\ ListenerReadStep =>
                /\ enginePc = "done" /\ repeaterV = engineNext
                /\ listenerNext' = repeaterV
                /\ repeaterV' = repeaterV /\ Published'
           /\ \A r \in Requests :
                RelayReadStep(r) =>
                    /\ enginePc = "done" /\ repeaterV = engineNext
                    /\ reqH'[r] = repeaterV
                    /\ repeaterV' = repeaterV /\ Published' ]_vars
    /\ [](/\ listenerNext # NoHandler => listenerNext = repeaterV
          /\ \A r \in Requests : reqH[r] # NoHandler => reqH[r] = repeaterV
          /\ ~Published =>
                /\ listenerNext = NoHandler
                /\ \A r \in Requests : reqH[r] = NoHandler)

\* C14 witness: the listener and two requests have all received the
\* published value and the relay is still ready.
C14_Witness ==
    /\ Published
    /\ listenerNext = repeaterV
    /\ \A r \in Requests : reqPc[r] = "serve" /\ reqH[r] = repeaterV

\* C15: the field starts as the waiting responder; a step changes it only
\* if it is the listener's write, the field still holds the waiting
\* responder, and the new value is the published one: the product of the
\* successful factory call or the permanent-failure responder. The listener
\* writes once and an installed responder is never changed back.
C15_FieldAssignedOnce ==
    /\ handler = WaitHandler
    /\ [][ /\ handler' # handler =>
                /\ listenerPc = "write" /\ listenerPc' = "unlock"
                /\ handler = WaitHandler
                /\ handler' = repeaterV
                /\ \/ handler' = FailedHandler /\ engineState = "cancelled"
                   \/ handler' = RealHandler(Len(returned)) /\ engineState = "succeeded"
           /\ (listenerPc = "write" /\ listenerPc' # "write") =>
                handler' # WaitHandler
           /\ listenerPc \in {"unlock", "done"} =>
                listenerPc' \in {"unlock", "done"} /\ handler' = handler ]_vars

\* C15 witness: the listener has installed the product of the third factory
\* call and has ended, while requests go on reading the field.
C15_Witness ==
    /\ listenerPc = "done"
    /\ handler = RealHandler(3)
    /\ \E r \in Requests : reqPc[r] = "read"

\* The listener has written the field.
ListenerHasWritten == listenerPc \in {"unlock", "done"}

\* C16: a request that reads the field after the listener's write reads
\* what the listener stored; its call of c.ServeHTTP goes straight to that
\* responder (no select, no timer), and it is answered by that responder
\* without having received anything from the relay.
C16_WarmPathDirect ==
    [][ \A r \in Requests :
          /\ (ListenerHasWritten /\ FieldReadStep(r)) =>
                reqC'[r] = listenerNext /\ reqC'[r] # WaitHandler
          /\ (ListenerHasWritten /\ reqPc[r] = "unlock" /\ reqPc'[r] # "unlock") =>
                /\ reqPc'[r] = "serve"
                /\ timer'[r] = "none"
                /\ reqH'[r] = NoHandler
                /\ reqC'[r] = listenerNext
          /\ (reqPc[r] = "serve" /\ reqC[r] # WaitHandler /\ reqPc'[r] = "done") =>
                /\ reqH[r] = NoHandler
                /\ resp'[r] = ServeHTTPOf(reqC[r])
                /\ repeaterPc' = repeaterPc ]_vars

\* C16 witness: a request issued after a success read the installed field
\* and has been answered by the real responder, while the other request is
\* still in the cold race.
C16_Witness ==
    \E r, q \in Requests :
        /\ listenerPc = "done"
        /\ handler.kind = "real"
        /\ reqPc[r] = "done" /\ resp[r] = RealResponse(handler.id)
        /\ reqPc[q] = "select" /\ timer[q] = "fired"

\* The tasks between their h.Lock() and h.Unlock().
InCriticalSection ==
    {RequestHolder(r) : r \in {q \in Requests : reqPc[q] \in {"read", "unlock"}}}
        \cup (IF listenerPc \in {"write", "unlock"} THEN {ListenerHolder} ELSE {})

\* C17: at most one task is between Lock and Unlock at a time and it is the
\* holder of the mutex; every read of the field and the write happen in
\* such a section; a request that has been delegated to a responder (waiting
\* in the select or being served) holds no lock, so the listener and other
\* requests can take it.
C17_LockDiscipline ==
    /\ [](/\ Cardinality(InCriticalSection) <= 1
          /\ InCriticalSection = (IF mutex = NoHolder THEN {} ELSE {mutex})
          /\ \A r \in Requests :
                reqPc[r] \in {"select", "serve", "done"} => mutex # RequestHolder(r))
    /\ [][ /\ \A r \in Requests : FieldReadStep(r) => mutex = RequestHolder(r)
           /\ handler' # handler => mutex = ListenerHolder
           /\ \A r \in Requests :
                (reqPc[r] = "unlock" /\ reqPc'[r] \in {"select", "serve"}) =>
                    mutex' = NoHolder ]_vars

\* C17 witness: while one request is being served by the installed responder
\* and has not returned, another request holds the lock and reads the field.
C17_Witness ==
    \E r, q \in Requests :
        /\ reqPc[r] = "serve" /\ reqC[r] # WaitHandler
        /\ reqPc[q] = "read" /\ mutex = RequestHolder(q)

\* C18: once the engine is terminal no schedule event is taken from the
\* tick producer again; the producer is not stopped (it still takes the next
\* tick from the ticker and loops), it never ends, and once it is blocked
\* handing over a schedule event it stays blocked there.
C18_TickerLeaks ==
    /\ [][ engineState # "retrying" =>
             (tickerPc = "send" => tickerPc' = "send") ]_vars
    /\ [](tickerPc \in {"send", "wait"})
    /\ [](engineState # "retrying" =>
            /\ ~ENABLED EngineSelectSchedule
            /\ (tickerPc = "wait" /\ tickBuf = 1) => ENABLED TickerWait)

\* C18 witness: the engine has returned after a success and the tick
\* producer, having taken a later tick, is blocked handing over a schedule
\* event while the ticker already holds a further tick.
C18_Witness ==
    /\ engineState = "succeeded"
    /\ enginePc = "done"
    /\ createCalls = 1
    /\ tickerPc = "send"
    /\ tickBuf = 1
    /\ ticksElapsed = 2

\* C19: whenever the engine is in send(..), the repeater is still waiting on
\* its intake, so the hand-off can complete at once whatever the listener
\* and the requests are doing; the step that completes it hands over the
\* engine's value and ends the engine's goroutine for good.
C19_PublishNeverBlocks ==
    /\ [](enginePc = "send" => repeaterPc = "recv" /\ ENABLED EngineSend)
    /\ [][ /\ (enginePc = "send" /\ enginePc' # "send") =>
                enginePc' = "done" /\ repeaterV' = engineNext
           /\ enginePc = "done" => enginePc' = "done" ]_vars

\* C19 witness: the engine has handed over and ended while no request was
\* ever issued and the listener has not received anything yet.
C19_Witness ==
    /\ enginePc = "done"
    /\ repeaterPc = "close"
    /\ listenerPc = "recv"
    /\ \A r \in Requests : reqPc[r] = "idle"

\* C20: at most one create() call is in flight at any time, and it is in
\* flight exactly while the engine is inside the call; a new attempt starts
\* only from the engine's select, when every earlier call has returned and
\* every failure's notify has been made and has returned; while notify
\* runs no attempt starts, whatever the ticker does.
C20_AttemptsSequential ==
    /\ [](createCalls - Len(returned) = IF enginePc = "create" THEN 1 ELSE 0)
    /\ [](enginePc = "notify" =>
            /\ Len(returned) = createCalls
            /\ returned[Len(returned)] # 0)
    /\ [][ /\ createCalls' # createCalls =>
                /\ enginePc = "select"
                /\ enginePc' = "create"
                /\ createCalls' = createCalls + 1
                /\ Len(returned) = createCalls
                /\ Len(notified) = Len(FailedErrors)
           /\ enginePc \in {"create", "notify"} =>
                createCalls' = createCalls ]_vars

\* C20 witness: notify is running for the first failure while the tick
\* producer is blocked on schedule with a further tick already buffered.
C20_Witness ==
    /\ enginePc = "notify"
    /\ createCalls = 1
    /\ tickerPc = "send"
    /\ tickBuf = 1

====
